---- MODULE Spec2Model ----
(***************************************************************************)
(* Model of VQLS_CudaQ/vqls.cpp: the Pauli-string operator construction    *)
(* (to_spin_op), the cost function (vqls_cost), the hardware-efficient     *)
(* ansatz kernel and the gradient-descent loop of main.                    *)
(*                                                                         *)
(* Numbers.  Real and complex values are fixed-point integers in units of  *)
(* 1/One; a complex number is a pair <<re, im>>.  One is a multiple of     *)
(* 2*2*EtaDen, so that the products of the coefficients used and the step  *)
(* theta[i] -= 0.1 * grad[i] are exact.                                    *)
(*                                                                         *)
(* The CUDA-Q runtime (spin_op arithmetic, observe, gradient) is not part  *)
(* of the repository.  The Pauli algebra is modelled by its product table; *)
(* observe is modelled as a deterministic oracle, linear in the operator's *)
(* terms, selected by `seed`; an oracle call may also throw.               *)
(***************************************************************************)
EXTENDS Integers, Sequences, FiniteSets, TLC

VARIABLES
    nQubits,    \* const int nQubits
    nLayers,    \* const int nLayers
    maxIter,    \* the loop bound of main
    matA,       \* the global operator specification
    seed,       \* which deterministic backend answers observe
    pc,         \* position of main: "grad", "update", "ansatz", "Exhausted", "Failed"
    theta,      \* main's parameter vector
    iter,       \* main's loop counter
    grad,       \* main's local grad
    ui,         \* index i of the update loop
    thetaK,     \* theta as it was handed to grad_fn in this iteration
    history,    \* the "Iter k Cost = c" lines inserted into std::cout, in order
    final,      \* the "Final parameters" line, or <<>> when not written
    gradEvals,  \* number of grad_fn calls made
    updates,    \* number of completed passes of the update loop
    kLayer,     \* ansatz kernel: i
    kJ,         \* ansatz kernel: j
    idx,        \* ansatz kernel: idx
    reads,      \* ansatz kernel: the indices of theta read so far, in order
    fpc,        \* function-level runs: which call comes next
    spinRes,    \* function-level runs: result of to_spin_op(matA)
    prodRes,    \* function-level runs: result of A * A
    costRes     \* function-level runs: result of vqls_cost(theta)

cfgVars == <<nQubits, nLayers, maxIter, matA, seed>>
optVars == <<pc, theta, iter, grad, ui, thetaK, history, final, gradEvals, updates>>
kerVars == <<kLayer, kJ, idx, reads>>
fnVars  == <<fpc, spinRes, prodRes, costRes>>
vars    == <<cfgVars, optVars, kerVars, fnVars>>

----------------------------------------------------------------------------
(* Fixed-point complex arithmetic *)

One == 40

ConfQubits == 4
ConfLayers == 8
ConfIters == 50
EtaNum == 1
EtaDen == 10

CMul(a, b) ==
    << (a[1] * b[1] - a[2] * b[2]) \div One, (a[1] * b[2] + a[2] * b[1]) \div One >>

\* i^k for k in 0..3
IPow(k) ==
    CASE k = 0 -> << One, 0 >>
      [] k = 1 -> << 0, One >>
      [] k = 2 -> << -One, 0 >>
      [] k = 3 -> << 0, -One >>

RECURSIVE SumTo(_, _)
SumTo(f, n) == IF n = 0 THEN 0 ELSE f[n] + SumTo(f, n - 1)

Max(a, b) == IF a >= b THEN a ELSE b

\* The sequence f with its elements evaluated
Tup(f) == SubSeq(f, 1, Len(f))

----------------------------------------------------------------------------
(* Pauli algebra: a term is [coeff, ops]; ops is padded with "I" as needed; an operator is a sequence of terms *)

Paulis == {"I", "X", "Y", "Z"}

\* Product of two single-qubit labels: the resulting label and the power of i
PauliProd_SignFlip(a, b) ==
    CASE a = "I" -> [op |-> b, ph |-> 0]
      [] b = "I" -> [op |-> a, ph |-> 0]
      [] a = b   -> [op |-> "I", ph |-> IF a = "Y" THEN 2 ELSE 0]
      [] a = "X" /\ b = "Y" -> [op |-> "Z", ph |-> 1]
      [] a = "Y" /\ b = "Z" -> [op |-> "X", ph |-> 1]
      [] a = "Z" /\ b = "X" -> [op |-> "Y", ph |-> 1]
      [] a = "Y" /\ b = "X" -> [op |-> "Z", ph |-> 3]
      [] a = "Z" /\ b = "Y" -> [op |-> "X", ph |-> 3]
      [] a = "X" /\ b = "Z" -> [op |-> "Y", ph |-> 3]

PauliProd(a, b) ==
    CASE a = "I" -> [op |-> b, ph |-> 0]
      [] b = "I" -> [op |-> a, ph |-> 0]
      [] a = b   -> [op |-> "I", ph |-> 0]
      [] a = "X" /\ b = "Y" -> [op |-> "Z", ph |-> 1]
      [] a = "Y" /\ b = "Z" -> [op |-> "X", ph |-> 1]
      [] a = "Z" /\ b = "X" -> [op |-> "Y", ph |-> 1]
      [] a = "Y" /\ b = "X" -> [op |-> "Z", ph |-> 3]
      [] a = "Z" /\ b = "Y" -> [op |-> "X", ph |-> 3]
      [] a = "X" /\ b = "Z" -> [op |-> "Y", ph |-> 3]

OpAt(ops, k) == IF k <= Len(ops) THEN ops[k] ELSE "I"

\* Product of two terms: per-qubit products, the phases accumulated
TermMul(s, t) ==
    LET n  == Max(Len(s.ops), Len(t.ops))
        pp == Tup([k \in 1..n |-> PauliProd(OpAt(s.ops, k), OpAt(t.ops, k))])
        ph == SumTo([k \in 1..n |-> pp[k].ph], n) % 4
    IN  [coeff |-> CMul(CMul(s.coeff, t.coeff), IPow(ph)),
         ops   |-> Tup([k \in 1..n |-> pp[k].op]),
         phase |-> ph]

\* A * B: every pair of terms, one from each operand
SpinMul(A, B) ==
    Tup([k \in 1..(Len(A) * Len(B)) |->
            TermMul(A[((k - 1) \div Len(B)) + 1], B[((k - 1) % Len(B)) + 1])])

\* cudaq::spin::x(i), y(i), z(i): label c on qubit i (0-based), identity below
SpinSingle(c, i) ==
    [coeff |-> << One, 0 >>, ops |-> Tup([k \in 1..(i + 1) |-> IF k = i + 1 THEN c ELSE "I"]), phase |-> 0]

\* cudaq::spin_op term(1.0)
IdentityTerm == [coeff |-> << One, 0 >>, ops |-> << >>, phase |-> 0]

IsIdentity(ops) == \A k \in 1..Len(ops) : ops[k] = "I"

----------------------------------------------------------------------------
(* to_spin_op *)

\* The inner loop over the characters of pauli_str, from position i on
RECURSIVE BuildTerm(_, _, _)
BuildTerm(pauli_str, i, term) ==
    IF i >= Len(pauli_str) THEN [status |-> "ok", term |-> term]
    ELSE LET c == pauli_str[i + 1] IN
         IF c = "I" THEN BuildTerm(pauli_str, i + 1, term)
         ELSE IF c \in {"X", "Y", "Z"}
              THEN BuildTerm(pauli_str, i + 1, TermMul(term, SpinSingle(c, i)))
              ELSE [status |-> "invalid_argument", term |-> term]

\* H += coeff * term
ScaleTerm(coeff, term) ==
    [coeff |-> CMul(coeff, term.coeff), ops |-> term.ops, phase |-> term.phase]

\* The outer loop over pauli_list, from entry n on, H being the sum so far
\* (cudaq::spin_op H starts as the empty sum)
RECURSIVE SpinOpFrom(_, _, _)
SpinOpFrom(pauli_list, n, H) ==
    IF n > Len(pauli_list) THEN [status |-> "ok", H |-> H]
    ELSE LET b == BuildTerm(pauli_list[n].str, 0, IdentityTerm) IN
         IF b.status = "ok"
         THEN SpinOpFrom(pauli_list, n + 1, Append(H, ScaleTerm(pauli_list[n].coeff, b.term)))
         ELSE [status |-> "invalid_argument", H |-> << >>]

to_spin_op(pauli_list) == SpinOpFrom(pauli_list, 1, << >>)

----------------------------------------------------------------------------
(* The execution oracle (cudaq::observe) and the cost function *)

PauliCode(l) == CASE l = "I" -> 0 [] l = "X" -> 1 [] l = "Y" -> 2 [] l = "Z" -> 3

KernelTag(kernel) == IF kernel = "ansatz" THEN 0 ELSE 1

\* The part of the backend's answer that the kernel's arguments decide
ArgsHash(th) == SumTo([k \in 1..Len(th) |-> th[k] * k], Len(th))

\* Expectation of one Pauli string, a value in {-1, 0, 1}, fixed by the backend
\* `sd`, the kernel, the string and the kernel's arguments (through h)
TermExpect(sd, kernel, ops, h) ==
    ((sd + KernelTag(kernel)
         + SumTo([k \in 1..Len(ops) |-> PauliCode(ops[k]) * k], Len(ops))
         + h) % 3) - 1

\* observe(kernel, op, args...).expectation(): linear in the terms of op
Observe(sd, call) ==
    LET h == ArgsHash(call.args) IN
    SumTo([t \in 1..Len(call.op) |->
              call.op[t].coeff[1] * TermExpect(sd, call.kernel, call.op[t].ops, h)],
          Len(call.op))

\* The two observe calls of vqls_cost, in program order
CostCalls(A, AdgA, th) ==
    << [kernel |-> "ansatz",  op |-> AdgA, args |-> th],
       [kernel |-> "state_b", op |-> A,    args |-> << >>] >>

\* return denom - 2.0 * numer + 1.0
CostValue_NoFactor(denom, numer) == denom - numer + One

CostValue(denom, numer) == denom - 2 * numer + One

\* The body of vqls_cost once A and AdgA = A * A are built
CostOf(sd, A, AdgA, th) ==
    LET calls == CostCalls(A, AdgA, th)
        denom == Observe(sd, calls[1])
        numer == Observe(sd, calls[2])
    IN  [status |-> "ok", value |-> CostValue(denom, numer), calls |-> calls]

vqls_cost(sd, mA, th) ==
    LET r == to_spin_op(mA) IN
    IF r.status # "ok"
    THEN [status |-> r.status, value |-> 0, calls |-> << >>]
    ELSE CostOf(sd, r.H, SpinMul(r.H, r.H), th)

\* grad_fn(theta): one difference quotient of cost_fn per parameter, the step
\* being one unit of the fixed-point representation.  Every call of cost_fn
\* builds the same A and A * A, which are therefore built once here.
Grad(sd, mA, th) ==
    LET r == to_spin_op(mA) IN
    IF r.status # "ok"
    THEN [status |-> r.status, g |-> << >>]
    ELSE LET A    == r.H
             AdgA == SpinMul(A, A)
             base == CostOf(sd, A, AdgA, th).value
         IN  [status |-> "ok",
              g |-> Tup([k \in 1..Len(th) |->
                        (CostOf(sd, A, AdgA, [th EXCEPT ![k] = @ + 1]).value - base) * One])]

----------------------------------------------------------------------------
(* Configurations and inputs *)

MaxQubits == 3
MaxLayers == 2
MaxIters == 2
MaxStrLen == 3
MaxTerms == 2
FnQubits == 2

Seeds == {0, 1}
ThetaValues == {-1, 0, 1}
Alphabet == {"I", "X", "Y", "Z", "Q"}
Coeffs == { << 2 * One, 0 >>, << -(One \div 2), 0 >>, << One \div 2, One \div 2 >> }

\* The literal of the source
MatA ==
    << [coeff |-> << One, 0 >>,     str |-> << "I", "Z", "Z", "I" >>],
       [coeff |-> << 2 * One, 0 >>, str |-> << "Z", "Z", "Z", "Z" >>],
       [coeff |-> << -(One \div 2), 0 >>, str |-> << "I", "I", "I", "Z" >>] >>

\* The literal with one character that is no Pauli label
MatABad == [MatA EXCEPT ![2].str[3] = "Q"]

Configs ==
    {[q |-> ConfQubits, l |-> ConfLayers, m |-> ConfIters]}
    \cup [q : 1..MaxQubits, l : 0..MaxLayers, m : 0..MaxIters]

Strings == UNION {[1..n -> Alphabet] : n \in 1..MaxStrLen}

Filler(q) == [coeff |-> << One, 0 >>, str |-> [k \in 1..q |-> "Z"]]

\* Lists of up to MaxTerms entries: one arbitrary entry, first or last, among well-formed ones
PauliLists(q) ==
    UNION { { [k \in 1..n |-> IF k = p THEN [coeff |-> c, str |-> s] ELSE Filler(q)] :
                p \in {1, n}, c \in Coeffs, s \in Strings } : n \in 1..MaxTerms }

ZeroTheta(n) == [k \in 1..n |-> 0]

FnThetas(n) ==
    { [k \in 1..n |-> IF k = p THEN v ELSE 0] : p \in 1..n, v \in ThetaValues }

NoResult == [status |-> "none"]

OptIdle ==
    /\ pc = "idle" /\ iter = 0 /\ grad = << >> /\ ui = 0 /\ thetaK = theta
    /\ history = << >> /\ final = << >> /\ gradEvals = 0 /\ updates = 0

KerIdle == kLayer = 0 /\ kJ = 0 /\ idx = 0 /\ reads = << >>

FnIdle == fpc = "idle" /\ spinRes = NoResult /\ prodRes = NoResult /\ costRes = NoResult

----------------------------------------------------------------------------
(* main *)

Init ==
    /\ \E c \in Configs : nQubits = c.q /\ nLayers = c.l /\ maxIter = c.m
    /\ matA \in {MatA, MatABad}
    /\ seed \in Seeds
    /\ pc = "grad"
    /\ theta = ZeroTheta(nQubits * nLayers)
    /\ iter = 0 /\ grad = << >> /\ ui = 0 /\ thetaK = theta
    /\ history = << >> /\ final = << >> /\ gradEvals = 0 /\ updates = 0
    /\ KerIdle
    /\ FnIdle

\* Variant: the loop body runs once before the bound is tested
ComputeGrad_OffByOne ==
    /\ pc = "grad" /\ iter <= maxIter
    /\ LET r == Grad(seed, matA, theta) IN
         /\ r.status = "ok"
         /\ grad' = r.g
    /\ thetaK' = theta
    /\ gradEvals' = gradEvals + 1
    /\ ui' = 0
    /\ pc' = "update"
    /\ UNCHANGED <<theta, iter, history, final, updates, cfgVars, kerVars, fnVars>>

\* Variant: the difference quotients perturb theta in place and the last
\* perturbation is not undone
ComputeGrad_InPlace ==
    /\ pc = "grad" /\ iter < maxIter
    /\ LET r == Grad(seed, matA, theta) IN
         /\ r.status = "ok"
         /\ grad' = r.g
    /\ thetaK' = theta
    /\ theta' = [k \in 1..Len(theta) |-> IF k = Len(theta) THEN theta[k] + 1 ELSE theta[k]]
    /\ gradEvals' = gradEvals + 1
    /\ ui' = 0
    /\ pc' = "update"
    /\ UNCHANGED <<iter, history, final, updates, cfgVars, kerVars, fnVars>>

\* for (iter < 50) { auto grad = grad_fn(theta);
ComputeGrad ==
    /\ pc = "grad" /\ iter < maxIter
    /\ LET r == Grad(seed, matA, theta) IN
         /\ r.status = "ok"
         /\ grad' = r.g
    /\ thetaK' = theta
    /\ gradEvals' = gradEvals + 1
    /\ ui' = 0
    /\ pc' = "update"
    /\ UNCHANGED <<theta, iter, history, final, updates, cfgVars, kerVars, fnVars>>

\* Variant: the gradient is evaluated lazily, so that it can throw while the
\* update loop is under way
GradThrows_MidUpdate ==
    /\ \/ pc = "grad" /\ iter < maxIter
       \/ pc = "update" /\ ui < Len(theta)
    /\ gradEvals' = gradEvals + 1
    /\ thetaK' = IF pc = "grad" THEN theta ELSE thetaK
    /\ pc' = "Failed"
    /\ UNCHANGED <<theta, iter, grad, ui, history, final, updates, cfgVars, kerVars, fnVars>>

\* grad_fn(theta) throws: to_spin_op rejects matA, or an observe call fails
GradThrows ==
    /\ pc = "grad" /\ iter < maxIter
    /\ gradEvals' = gradEvals + 1
    /\ thetaK' = theta
    /\ pc' = "Failed"
    /\ UNCHANGED <<theta, iter, grad, ui, history, final, updates, cfgVars, kerVars, fnVars>>

\* t - 0.1 * g
Descend(t, g) == t - (EtaNum * g) \div EtaDen

\* Variant: each component is updated with a gradient taken at the current,
\* partially updated theta
UpdateStep_Regrad ==
    /\ pc = "update" /\ ui < Len(theta)
    /\ theta' = [theta EXCEPT ![ui + 1] = Descend(@, Grad(seed, matA, theta).g[ui + 1])]
    /\ ui' = ui + 1
    /\ UNCHANGED <<pc, iter, grad, thetaK, history, final, gradEvals, updates,
                   cfgVars, kerVars, fnVars>>

\* theta[i] -= 0.1 * grad[i]
UpdateStep ==
    /\ pc = "update" /\ ui < Len(theta)
    /\ theta' = [theta EXCEPT ![ui + 1] = Descend(@, grad[ui + 1])]
    /\ ui' = ui + 1
    /\ UNCHANGED <<pc, iter, grad, thetaK, history, final, gradEvals, updates,
                   cfgVars, kerVars, fnVars>>

\* the update loop ends; vqls_cost(theta) builds A and A*A and starts the ansatz kernel
BeginCost ==
    /\ pc = "update" /\ ui >= Len(theta)
    /\ to_spin_op(matA).status = "ok"
    /\ updates' = updates + 1
    /\ kLayer' = 0 /\ kJ' = 0 /\ idx' = 0 /\ reads' = << >>
    /\ pc' = "ansatz"
    /\ UNCHANGED <<theta, iter, grad, ui, thetaK, history, final, gradEvals, cfgVars, fnVars>>

\* Variant: the inner loop runs while j < nQubits
AnsatzPair_Bound ==
    /\ pc = "ansatz" /\ kLayer < nLayers /\ kJ < nQubits
    /\ reads' = reads \o << idx, idx + 1 >>
    /\ idx' = idx + 2
    /\ kJ' = kJ + 2
    /\ UNCHANGED <<kLayer, optVars, cfgVars, fnVars>>

\* ry(theta[idx++], q[j]); ry(theta[idx++], q[j + 1]); x<ctrl>(q[j + 1], q[j]); j += 2
AnsatzPair ==
    /\ pc = "ansatz" /\ kLayer < nLayers /\ kJ < nQubits - 1
    /\ reads' = reads \o << idx, idx + 1 >>
    /\ idx' = idx + 2
    /\ kJ' = kJ + 2
    /\ UNCHANGED <<kLayer, optVars, cfgVars, fnVars>>

\* the inner loop ends; ++i
AnsatzNextLayer ==
    /\ pc = "ansatz" /\ kLayer < nLayers /\ kJ >= nQubits - 1
    /\ kLayer' = kLayer + 1
    /\ kJ' = 0
    /\ UNCHANGED <<idx, reads, optVars, cfgVars, fnVars>>

\* Variant: the line is numbered from 1
FinishCost_FromOne ==
    /\ pc = "ansatz" /\ kLayer >= nLayers
    /\ history' = Append(history, [iter |-> iter + 1, cost |-> vqls_cost(seed, matA, theta).value])
    /\ iter' = iter + 1
    /\ pc' = "grad"
    /\ UNCHANGED <<theta, grad, ui, thetaK, final, gradEvals, updates, cfgVars, kerVars, fnVars>>

\* std::cout << "Iter " << iter << " Cost = " << vqls_cost(theta); ++iter
FinishCost ==
    /\ pc = "ansatz" /\ kLayer >= nLayers
    /\ history' = Append(history, [iter |-> iter, cost |-> vqls_cost(seed, matA, theta).value])
    /\ iter' = iter + 1
    /\ pc' = "grad"
    /\ UNCHANGED <<theta, grad, ui, thetaK, final, gradEvals, updates, cfgVars, kerVars, fnVars>>

\* vqls_cost(theta) throws, before, while or after the ansatz kernel runs
CostThrows ==
    /\ \/ pc = "update" /\ ui >= Len(theta)
       \/ pc = "ansatz"
    /\ updates' = IF pc = "update" THEN updates + 1 ELSE updates
    /\ pc' = "Failed"
    /\ UNCHANGED <<theta, iter, grad, ui, thetaK, history, final, gradEvals,
                   cfgVars, kerVars, fnVars>>

\* Variant: the loop stops one iteration early
LoopExit_Early ==
    /\ pc = "grad" /\ iter >= maxIter - 1
    /\ final' = << theta >>
    /\ pc' = "Exhausted"
    /\ UNCHANGED <<theta, iter, grad, ui, thetaK, history, gradEvals, updates,
                   cfgVars, kerVars, fnVars>>

\* the loop condition fails; "Final parameters" are written; return 0
LoopExit ==
    /\ pc = "grad" /\ iter >= maxIter
    /\ final' = << theta >>
    /\ pc' = "Exhausted"
    /\ UNCHANGED <<theta, iter, grad, ui, thetaK, history, gradEvals, updates,
                   cfgVars, kerVars, fnVars>>

Next ==
    \/ LoopExit
    \/ GradThrows
    \/ ComputeGrad
    \/ UpdateStep
    \/ CostThrows
    \/ BeginCost
    \/ AnsatzPair
    \/ AnsatzNextLayer
    \/ FinishCost

Spec == Init /\ [][Next]_vars

\* The program keeps running until it returns or an exception ends it
FairSpec == Spec /\ WF_vars(Next)

----------------------------------------------------------------------------
(* Function-level runs: to_spin_op, A * A and vqls_cost on enumerated inputs *)

FnInit ==
    /\ nQubits = FnQubits /\ nLayers = 1 /\ maxIter = 0
    /\ matA \in PauliLists(nQubits)
    /\ seed \in Seeds
    /\ theta \in FnThetas(nQubits * nLayers)
    /\ OptIdle
    /\ KerIdle
    /\ fpc = "to_spin_op" /\ spinRes = NoResult /\ prodRes = NoResult /\ costRes = NoResult

\* auto A = to_spin_op(matA)
CallToSpinOp ==
    /\ fpc = "to_spin_op"
    /\ spinRes' = to_spin_op(matA)
    /\ fpc' = "multiply"
    /\ UNCHANGED <<prodRes, costRes, cfgVars, optVars, kerVars>>

\* auto AdgA = A * A
CallMultiply ==
    /\ fpc = "multiply"
    /\ spinRes.status = "ok"
    /\ prodRes' = [status |-> "ok", H |-> SpinMul(spinRes.H, spinRes.H)]
    /\ fpc' = "cost"
    /\ UNCHANGED <<spinRes, costRes, cfgVars, optVars, kerVars>>

\* vqls_cost(theta)
CallCost ==
    /\ fpc \in {"multiply", "cost"}
    /\ fpc = "multiply" => spinRes.status # "ok"
    /\ costRes' = vqls_cost(seed, matA, theta)
    /\ fpc' = "done"
    /\ UNCHANGED <<spinRes, prodRes, cfgVars, optVars, kerVars>>

FnNext == CallToSpinOp \/ CallMultiply \/ CallCost

FnSpec == FnInit /\ [][FnNext]_vars

----------------------------------------------------------------------------
(* Properties *)

HasBadChar(str) == \E k \in 1..Len(str) : str[k] \notin Paulis

Malformed(pauli_list) ==
    \E n \in 1..Len(pauli_list) :
        HasBadChar(pauli_list[n].str) \/ Len(pauli_list[n].str) # nQubits

\* C1: to_spin_op fails, and produces no operator, whenever a label string of
\* the list has a character outside {I,X,Y,Z} or a length other than nQubits.
C1_MalformedRejected ==
    (spinRes # NoResult /\ Malformed(matA))
        => (spinRes.status = "invalid_argument" /\ spinRes.H = << >>)

Running == pc \in {"grad", "update", "ansatz"}

\* C2: the loop ends; it reaches Exhausted only with iter = maxIter, after
\* exactly maxIter passes of the update loop, and no pass is made beyond that.
C2_Terminates ==
    /\ <>(pc \in {"Exhausted", "Failed"})
    /\ [](pc = "Exhausted" => iter = maxIter /\ updates = maxIter /\ gradEvals = maxIter)
    /\ [](iter <= maxIter /\ updates <= maxIter /\ gradEvals <= maxIter)
    /\ [](pc \in {"update", "ansatz"} => iter < maxIter)

C2_Witness ==
    pc = "Exhausted" /\ maxIter = ConfIters /\ updates = ConfIters /\ theta # ZeroTheta(Len(theta))

\* theta_k with its first n components stepped along g
Stepped(th, g, n) ==
    Tup([k \in 1..Len(th) |-> IF k <= n THEN th[k] - (EtaNum * g[k]) \div EtaDen ELSE th[k]])

\* C3: the gradient of an iteration is the gradient at the complete theta of
\* the previous iteration; every component is stepped by eta times its
\* component of that gradient; the next iteration starts from all of them.
C3_FullGradientStep ==
    /\ pc = "update" =>
          /\ grad = Grad(seed, matA, thetaK).g
          /\ ui <= Len(theta)
          /\ theta = Stepped(thetaK, grad, ui)
    /\ pc = "ansatz" => theta = Stepped(thetaK, Grad(seed, matA, thetaK).g, Len(theta))
    /\ (pc = "grad" /\ iter > 0) =>
          /\ ui = Len(theta)
          /\ theta = Stepped(thetaK, grad, Len(theta))

C3_Witness ==
    /\ pc = "ansatz" /\ iter >= 1 /\ Len(theta) >= 2
    /\ \E k \in 1..Len(theta) : grad[k] # 0
    /\ Grad(seed, matA, theta).g # grad

IsPrefix(a, b) == Len(a) <= Len(b) /\ \A k \in 1..Len(a) : a[k] = b[k]

\* C4: one line per iteration: the history is as long as the iteration
\* counter, its lines are numbered 0, 1, 2, ... and a line once written stays.
C4_OneSamplePerIteration ==
    /\ [](Len(history) = iter /\ \A k \in 1..Len(history) : history[k].iter = k - 1)
    /\ [][IsPrefix(history, history') /\ Len(history') <= Len(history) + 1]_vars

C4_Witness == Len(history) >= 2 /\ history[1].cost # history[2].cost

\* C5: vqls_cost(theta) is the expectation of A*A on the ansatz state, minus
\* twice the expectation of A on the reference state, plus one; it makes these
\* two observe calls and no other, and the second does not depend on theta.
C5_CostFormula ==
    costRes.status = "ok" =>
        LET A == spinRes.H IN
        /\ Len(costRes.calls) = 2
        /\ costRes.calls[1] = [kernel |-> "ansatz", op |-> prodRes.H, args |-> theta]
        /\ costRes.calls[2] = [kernel |-> "state_b", op |-> A, args |-> << >>]
        /\ costRes.value = Observe(seed, costRes.calls[1]) - 2 * Observe(seed, costRes.calls[2]) + One
        /\ \A th \in FnThetas(Len(theta)) :
              vqls_cost(seed, matA, th).calls[2] = costRes.calls[2]

C5_Witness ==
    /\ costRes.status = "ok" /\ theta # ZeroTheta(Len(theta))
    /\ Observe(seed, costRes.calls[1]) # 0
    /\ Observe(seed, costRes.calls[2]) # 0

C7_ZeroIterations ==
    maxIter = 0 =>
        /\ pc \in {"grad", "Exhausted"}
        /\ theta = ZeroTheta(nQubits * nLayers)
        /\ history = << >>
        /\ gradEvals = 0 /\ updates = 0
        /\ pc = "grad" => (ENABLED LoopExit /\ ~ENABLED GradThrows)
        /\ pc = "Exhausted" => final = << theta >>

C7_Witness == maxIter = 0 /\ pc = "Exhausted" /\ Len(theta) > 0

\* C8: the square of a single Pauli term with coefficient c is the identity
\* term with coefficient c*c and accumulated phase +1.
C8_SquareIsIdentity ==
    (/\ prodRes.status = "ok"
     /\ Len(matA) = 1
     /\ Len(matA[1].str) = nQubits)
        => /\ Len(prodRes.H) = 1
           /\ IsIdentity(prodRes.H[1].ops)
           /\ prodRes.H[1].phase = 0
           /\ prodRes.H[1].coeff = CMul(matA[1].coeff, matA[1].coeff)

C8_Witness ==
    /\ prodRes.status = "ok" /\ Len(matA) = 1 /\ Len(matA[1].str) = nQubits
    /\ matA[1].str[1] = "Y" /\ matA[1].str[2] = "X"
    /\ matA[1].coeff[2] # 0

\* C9: no step changes the operator specification, and theta changes only in
\* a step of the update loop, which writes the one component it is at.
C9_Frame ==
    [][/\ matA' = matA
       /\ theta' # theta =>
             /\ pc = "update" /\ pc' = "update" /\ ui' = ui + 1
             /\ \A k \in 1..Len(theta) : k # ui + 1 => theta'[k] = theta[k]
       /\ pc \in {"grad", "ansatz"} => theta' = theta]_vars

C9_Witness ==
    /\ gradEvals >= 2 /\ Len(history) >= 1 /\ pc = "update"
    /\ theta # thetaK /\ matA = MatA

IsEven(n) == n % 2 = 0

\* C10: theta has nQubits * nLayers entries throughout; the ansatz reads the
\* indices 0, 1, 2, ... in order, each below that length; with an even number
\* of qubits a complete run of the ansatz has read every index.
C10_AnsatzReads ==
    /\ Len(theta) = nQubits * nLayers
    /\ (nQubits = ConfQubits /\ nLayers = ConfLayers) => Len(theta) = 32
    /\ idx = Len(reads)
    /\ \A k \in 1..Len(reads) : reads[k] = k - 1 /\ reads[k] < Len(theta)
    /\ (pc = "ansatz" /\ kLayer >= nLayers /\ IsEven(nQubits)) => Len(reads) = Len(theta)

C10_Witness ==
    /\ pc = "ansatz" /\ kLayer = nLayers
    /\ nQubits = ConfQubits /\ nLayers = ConfLayers
    /\ Len(reads) = 32

====
